---- MODULE Spec2Model ----
(***************************************************************************)
(* Token lifecycle and data-sync engine of strava-mcp.                     *)
(*                                                                         *)
(*   src/setup/strava-mcp.py   get_stored_token, store_token,              *)
(*                             refresh_strava_access_token, ensure_token   *)
(*   src/strava-sync.py        init_db, get_strava_access_token,           *)
(*                             store_token, fetch_strava_athlete,          *)
(*                             fetch_strava_activities,                    *)
(*                             fetch_activity_details, main                *)
(*   src/backend/backend.py    refresh_access_token                        *)
(*                                                                         *)
(* Time is counted in half seconds (clock), so that datetime.now() can     *)
(* fall between two whole seconds: now = clock / 2, int(now) = clock \div 2*)
(***************************************************************************)
EXTENDS Integers, Sequences, FiniteSets, TLC

VARIABLES
    clock,          \* wall clock, in half seconds
    env,            \* process environment: STRAVA_REFRESH_TOKEN, STRAVA_CLIENT_ID, STRAVA_CLIENT_SECRET
    schema,         \* names of the tables and indexes of the SQLite file, in order of creation
    auth_token,     \* rows of table auth_token
    activities,     \* rows of table activities
    athlete,        \* rows of table athlete
    athlete_stats,  \* rows of table athlete_stats
    gear,           \* rows of table gear
    pc,             \* position of the running strava-sync main(), "idle" when none runs
    loc,            \* local variables of the running main()
    remote,         \* what the data API serves to the running main()
    requests,       \* HTTP requests sent by the operation that runs or ran last, oldest first
    result          \* outcome of the operation that finished last

vars == <<clock, env, schema, auth_token, activities, athlete, athlete_stats,
          gear, pc, loc, remote, requests, result>>

tables == <<auth_token, activities, athlete, athlete_stats, gear>>

(***************************************************************************)
(* Bounds of the model.                                                    *)
(***************************************************************************)
MaxClock == 2       \* the clock runs from 0 to MaxClock half seconds
MaxTok == 1         \* token pairs the OAuth provider can issue
MaxSlack == 1       \* expires_at values range over Margin-1 .. Margin-1+MaxSlack
MaxRows == 2        \* rows the auth_token table can hold
MaxPage == 4        \* last page number a fetch may request
MaxPageSize == 2    \* records a provider puts on one page
MaxVer == 2         \* versions of the content of one remote record
MaxFeed == 4        \* records of the longest activity feed
MaxBatch == 2       \* records of the longest feed with repeated ids
MaxCoreFeed == 1    \* records of the longest feed of a sync among calls of ensure_token
MaxBrokerCalls == 2 \* requests the token service answers

(***************************************************************************)
(* Program constants.                                                      *)
(***************************************************************************)
Margin == 60        \* get_stored_token: "Add a 60-second buffer"
per_page == 100     \* fetch_strava_activities
DefaultPages == 30  \* main: args.pages or 30

None == [tag |-> "None"]
NoToken == ""       \* an unset or empty STRAVA_REFRESH_TOKEN: falsy in Python

Max(S) == CHOOSE x \in S : \A y \in S : y <= x

\* dict.get(k, default)
Get(d, k, default) == IF k \in DOMAIN d THEN d[k] ELSE default

AccessNames == <<"a1", "a2", "a3", "a4">>
RefreshNames == <<"r1", "r2", "r3", "r4">>
ConfiguredRefresh == "r0"

ExpiresValues == {Margin - 1 + k : k \in 0..MaxSlack}

(***************************************************************************)
(* Python's int(datetime.now().timestamp()) and the comparison             *)
(* expires_at < datetime.now().timestamp() + 60 on the half-second clock.  *)
(***************************************************************************)
int_now(clk) == clk \div 2

\* the comparison with <= in place of <
IsExpired_Inclusive(expires_at, clk) == 2 * expires_at <= clk + 2 * Margin

\* the comparison without the 60-second buffer
IsExpired_NoMargin(expires_at, clk) == 2 * expires_at < clk

IsExpired(expires_at, clk) == 2 * expires_at < clk + 2 * Margin

(***************************************************************************)
(* SQLite: INTEGER PRIMARY KEY without a value gets max(rowid) + 1.        *)
(***************************************************************************)
NextRowId(table) == IF table = {} THEN 1 ELSE Max({r.id : r \in table}) + 1

(***************************************************************************)
(* SELECT * FROM auth_token ORDER BY created_at DESC LIMIT 1: any row with *)
(* the greatest created_at (SQL leaves the order of ties open).            *)
(***************************************************************************)
TopRows(table) == {r \in table : \A s \in table : s.created_at <= r.created_at}

TokenInfo(a, r, e) ==
    [tag |-> "TokenInfo", access_token |-> a, refresh_token |-> r, expires_at |-> e]

(***************************************************************************)
(* get_stored_token: the values the call can return at time clk.           *)
(***************************************************************************)
Raise(type, arg) == [tag |-> "raise", type |-> type, arg |-> arg]

\* the database file has a table or index of that name
Exists(sch, name) == \E i \in DOMAIN sch : sch[i] = name

get_stored_token(sch, table, clk) ==
    IF ~Exists(sch, "auth_token")
    THEN {Raise("OperationalError", "no such table: auth_token")}
    ELSE IF table = {} THEN {None}
    ELSE {IF IsExpired(row.expires_at, clk)
          THEN None
          ELSE TokenInfo(row.access_token, row.refresh_token, row.expires_at)
          : row \in TopRows(table)}

\* INSERT OR REPLACE INTO auth_token with id 1: the table keeps one row
store_token_Replace(table, a, r, e, clk) ==
    {[id |-> 1, access_token |-> a, refresh_token |-> r,
      expires_at |-> e, created_at |-> int_now(clk)]}

(***************************************************************************)
(* store_token: INSERT INTO auth_token (...) VALUES (...), created_at is   *)
(* int(datetime.now().timestamp()) at the time of the insert.              *)
(***************************************************************************)
\* a store_token whose INSERT is never committed
store_token_Uncommitted(table, a, r, e, clk) == table

store_token(table, a, r, e, clk) ==
    table \cup {[id |-> NextRowId(table), access_token |-> a, refresh_token |-> r,
                 expires_at |-> e, created_at |-> int_now(clk)]}

(***************************************************************************)
(* HTTP responses.  A request either fails in the network layer            *)
(* (requests.exceptions.RequestException: no connection, timeout) or       *)
(* yields a status and a JSON body; the text of an error body is its       *)
(* "error" member.                                                         *)
(***************************************************************************)
NetError == [kind |-> "error"]
Http(status, body) == [kind |-> "http", status |-> status, body |-> body]

Restrict(f, S) == [k \in S |-> f[k]]

TokenFields == {"access_token", "refresh_token", "expires_at"}

TokenBody(n, e) ==
    [access_token |-> AccessNames[n], refresh_token |-> RefreshNames[n], expires_at |-> e]

TokenBodies == {TokenBody(n, e) : n \in 1..MaxTok, e \in ExpiresValues}

\* 200 answers that lack one of the three members
MalformedBodies == {Restrict(TokenBody(1, Margin), TokenFields \ {k}) : k \in TokenFields}

\* what STRAVA_TOKEN_URL can answer
UpstreamResponses ==
    {NetError}
    \cup {Http(200, b) : b \in TokenBodies \cup MalformedBodies}
    \cup {Http(400, [error |-> "Bad Request"])}

(***************************************************************************)
(* backend.py refresh_access_token: the answer of POST /refresh-token to   *)
(* the JSON body data, given the answer of STRAVA_TOKEN_URL.  Any          *)
(* exception (no connection to Strava, a member missing in its answer)     *)
(* ends in the 500 of the except clause.                                   *)
(***************************************************************************)
\* token_data.get(...) in place of token_data[...] and no test of the status
refresh_access_token_Lenient(data, upstream) ==
    IF "refresh_token" \notin DOMAIN data
    THEN Http(400, [error |-> "Missing refresh token"])
    ELSE IF upstream.kind = "error"
    THEN Http(500, [error |-> "Internal server error"])
    ELSE Http(200, Restrict(upstream.body, TokenFields \cap DOMAIN upstream.body))

refresh_access_token(data, upstream) ==
    IF "refresh_token" \notin DOMAIN data
    THEN Http(400, [error |-> "Missing refresh token"])
    ELSE IF upstream.kind = "error"
    THEN Http(500, [error |-> "Internal server error"])
    ELSE IF upstream.status # 200
    THEN Http(400, [error |-> "Token refresh failed"])
    ELSE IF ~(TokenFields \subseteq DOMAIN upstream.body)
    THEN Http(500, [error |-> "Internal server error"])
    ELSE Http(200, Restrict(upstream.body, TokenFields))

\* what the service at TOKEN_SERVICE_URL can answer to POST /refresh-token:
\* the answers of backend.py, no answer at all, and the answers of a
\* service that does not keep the contract
TokenServiceResponses ==
    {refresh_access_token([refresh_token |-> ConfiguredRefresh], u) : u \in UpstreamResponses}
    \cup {NetError}
    \cup {Http(200, b) : b \in MalformedBodies}

Post(url, body) == [method |-> "POST", url |-> url, body |-> body]

(***************************************************************************)
(* backend.py exchange_token: the answer of POST /exchange-token; a 200    *)
(* carries the three members of Strava's answer and its athlete member.    *)
(***************************************************************************)
exchange_token(data, upstream) ==
    IF "code" \notin DOMAIN data
    THEN Http(400, [error |-> "Missing authorization code"])
    ELSE IF upstream.kind = "error"
    THEN Http(500, [error |-> "Internal server error"])
    ELSE IF upstream.status # 200
    THEN Http(400, [error |-> "Token exchange failed"])
    ELSE IF ~(TokenFields \subseteq DOMAIN upstream.body)
    THEN Http(500, [error |-> "Internal server error"])
    ELSE Http(200, Restrict(upstream.body, TokenFields)
                     @@ [athlete |-> Get(upstream.body, "athlete", <<>>)])

\* the requests the two endpoints send to STRAVA_TOKEN_URL
broker_refresh_request(data) ==
    Post("STRAVA_TOKEN_URL",
         [client_id |-> "26565", client_secret |-> "CLIENT_SECRET",
          refresh_token |-> data.refresh_token, grant_type |-> "refresh_token"])

broker_exchange_request(data) ==
    Post("STRAVA_TOKEN_URL",
         [client_id |-> "26565", client_secret |-> "CLIENT_SECRET",
          code |-> data.code, grant_type |-> "authorization_code"])

(***************************************************************************)
(* refresh_strava_access_token: the request it sends and what it returns   *)
(* or raises for a given answer.  Every failure inside the try block is    *)
(* re-raised as Exception("Failed to refresh Strava token: " + str(e)).    *)
(***************************************************************************)
refresh_request(refresh_token) ==
    Post("TOKEN_SERVICE_URL/refresh-token", [refresh_token |-> refresh_token])

FirstMissing(body) ==
    IF "access_token" \notin DOMAIN body THEN "access_token"
    ELSE IF "refresh_token" \notin DOMAIN body THEN "refresh_token"
    ELSE "expires_at"

Wrapped(inner) ==
    [tag |-> "raise", type |-> "Exception",
     arg |-> "Failed to refresh Strava token", cause |-> inner]

\* data.get(...) in place of data[...]: a missing member becomes an empty value
refresh_strava_access_token_Lenient(response) ==
    IF response.kind = "error"
    THEN Wrapped([type |-> "RequestException", arg |-> ""])
    ELSE IF response.status # 200
    THEN Wrapped([type |-> "Exception", arg |-> response.body.error])
    ELSE TokenInfo(Get(response.body, "access_token", ""),
                   Get(response.body, "refresh_token", ""),
                   Get(response.body, "expires_at", 0))

\* the re-raised exception without str(e)
refresh_strava_access_token_NoDetail(response) ==
    IF response.kind = "http" /\ response.status = 200
       /\ TokenFields \subseteq DOMAIN response.body
    THEN TokenInfo(response.body.access_token, response.body.refresh_token,
                   response.body.expires_at)
    ELSE Wrapped([type |-> "Exception", arg |-> ""])

refresh_strava_access_token(response) ==
    IF response.kind = "error"
    THEN Wrapped([type |-> "RequestException", arg |-> ""])
    ELSE IF response.status # 200
    THEN Wrapped([type |-> "Exception", arg |-> response.body.error])
    ELSE IF ~(TokenFields \subseteq DOMAIN response.body)
    THEN Wrapped([type |-> "KeyError", arg |-> FirstMissing(response.body)])
    ELSE TokenInfo(response.body.access_token, response.body.refresh_token,
                   response.body.expires_at)

(***************************************************************************)
(* ensure_token: the outcomes of one call that starts at time clk, given   *)
(* the answer the token service would give and the time (later) at which   *)
(* that answer arrives.  An outcome is the value returned or the exception *)
(* raised, the requests sent, the auth_token table and the clock at the    *)
(* end of the call.                                                        *)
(***************************************************************************)
Outcome(out, reqs, table, clk) ==
    [out |-> out, requests |-> reqs, auth_token |-> table, clock |-> clk]

\* ensure_token without the test of REFRESH_TOKEN
ensure_token_NoConfigCheck(sch, table, REFRESH_TOKEN, clk, response, later) ==
    {IF token.tag # "None"
     THEN Outcome(token, <<>>, table, clk)
     ELSE LET new == refresh_strava_access_token(response) IN
          IF new.tag = "raise"
          THEN Outcome(new, <<refresh_request(REFRESH_TOKEN)>>, table, later)
          ELSE Outcome(new, <<refresh_request(REFRESH_TOKEN)>>,
                       store_token(table, new.access_token, new.refresh_token,
                                   new.expires_at, later),
                       later)
     : token \in get_stored_token(sch, table, clk)}

\* ensure_token with a second attempt after a refresh that failed
ensure_token_Retry(sch, table, REFRESH_TOKEN, clk, response, later) ==
    {IF token.tag # "None"
     THEN Outcome(token, <<>>, table, clk)
     ELSE IF REFRESH_TOKEN = NoToken
     THEN Outcome(Raise("ValueError", "No refresh token available. Please re-run the setup tool."),
                  <<>>, table, clk)
     ELSE LET new == refresh_strava_access_token(response) IN
          IF new.tag = "raise"
          THEN Outcome(new, <<refresh_request(REFRESH_TOKEN), refresh_request(REFRESH_TOKEN)>>,
                       table, later)
          ELSE Outcome(new, <<refresh_request(REFRESH_TOKEN)>>,
                       store_token(table, new.access_token, new.refresh_token,
                                   new.expires_at, later),
                       later)
     : token \in get_stored_token(sch, table, clk)}

ensure_token(sch, table, REFRESH_TOKEN, clk, response, later) ==
    {IF token.tag # "None"
     THEN Outcome(token, <<>>, table, clk)
     ELSE IF REFRESH_TOKEN = NoToken
     THEN Outcome(Raise("ValueError", "No refresh token available. Please re-run the setup tool."),
                  <<>>, table, clk)
     ELSE LET new == refresh_strava_access_token(response) IN
          IF new.tag = "raise"
          THEN Outcome(new, <<refresh_request(REFRESH_TOKEN)>>, table, later)
          ELSE Outcome(new, <<refresh_request(REFRESH_TOKEN)>>,
                       store_token(table, new.access_token, new.refresh_token,
                                   new.expires_at, later),
                       later)
     : token \in get_stored_token(sch, table, clk)}

(***************************************************************************)
(* init_db: CREATE TABLE IF NOT EXISTS / CREATE INDEX IF NOT EXISTS for    *)
(* five tables and three indexes, then commit.  It works on the database:  *)
(* the schema, the rows of the five tables, and whether a statement        *)
(* raised.                                                                 *)
(***************************************************************************)
SchemaObjects ==
    <<"activities", "athlete", "gear", "auth_token", "athlete_stats",
      "idx_activities_type", "idx_activities_date", "idx_activities_distance">>

Database(sch, tokens, acts, ath, stats, gr) ==
    [schema |-> sch, error |-> FALSE, auth_token |-> tokens, activities |-> acts,
     athlete |-> ath, athlete_stats |-> stats, gear |-> gr]

\* CREATE without IF NOT EXISTS: "table already exists"
CreateIfNotExists_Plain(db, name) ==
    IF db.error THEN db
    ELSE IF Exists(db.schema, name) THEN [db EXCEPT !.error = TRUE]
    ELSE [db EXCEPT !.schema = Append(@, name)]

CreateIfNotExists(db, name) ==
    IF db.error \/ Exists(db.schema, name) THEN db
    ELSE [db EXCEPT !.schema = Append(@, name)]

RECURSIVE CreateAll(_, _)
CreateAll(db, names) ==
    IF names = <<>> THEN db
    ELSE CreateAll(CreateIfNotExists(db, Head(names)), Tail(names))

init_db(db) == CreateAll(db, SchemaObjects)

(***************************************************************************)
(* Payloads of the data API.  A payload is a JSON object: a function from  *)
(* the member names it has to their values.  dict.get(k, default) is Get.  *)
(***************************************************************************)
NULL == "NULL"
NotBindable == "<object>"   \* a JSON object or array where SQLite needs a scalar

json_dumps(d) == [json |-> d]

ActNames == <<"Morning Run", "Evening Run", "Night Run">>
ActDates == <<"2024-01-01T07:00:00Z", "2024-01-02T19:00:00Z", "2024-01-03T23:00:00Z">>

\* a summary record of GET athlete/activities, in version v of its content
Activity(id, v) ==
    [id |-> id, name |-> ActNames[v], type |-> "Run", sport_type |-> "TrailRun",
     start_date |-> ActDates[v], distance |-> 1000 * v, moving_time |-> 600 * v,
     elapsed_time |-> 700 * v, total_elevation_gain |-> 10 * v,
     average_speed |-> 3 * v, max_speed |-> 5 * v, has_heartrate |-> TRUE,
     average_heartrate |-> 140 + v, max_heartrate |-> 170 + v,
     kudos_count |-> v, achievement_count |-> v + 1, pr_count |-> v + 2]

\* a record that has nothing but its id and name
Sparse(id, v) == [id |-> id, name |-> ActNames[v]]

\* a record whose name SQLite cannot bind: cursor.execute raises
Unbindable(id) == [id |-> id, name |-> NotBindable]

\* the record GET activities/{id} returns
Detail(id, v) == [description |-> "with details"] @@ Activity(id, v)

Bindable(d) == Get(d, "name", "") # NotBindable

Bike(id, v) == [id |-> id, name |-> "Bike", brand_name |-> "Brand", distance |-> 100 * v]
Shoe(id, v) == [id |-> id, name |-> "Shoe", distance |-> 10 * v]

\* the athlete profile, in version v of its content
Athlete(v) ==
    [id |-> 7, firstname |-> ActNames[v], lastname |-> "Doe", city |-> "Oslo",
     weight |-> 70 + v,
     bikes |-> IF v = 1 THEN <<Bike("b1", 1)>> ELSE <<Bike("b1", v), Bike("g1", v)>>,
     shoes |-> IF v = 1 THEN <<>> ELSE <<Shoe("g1", v)>>]

Stats(v) == [biggest_ride_distance |-> 1000 * v]

(***************************************************************************)
(* The rows the INSERT statements build from a payload.                    *)
(***************************************************************************)
ActivityRow(d) ==
    [id |-> d.id,
     name |-> Get(d, "name", ""),
     type |-> Get(d, "type", ""),
     sport_type |-> Get(d, "sport_type", NULL),
     start_date |-> Get(d, "start_date", ""),
     distance |-> Get(d, "distance", 0),
     moving_time |-> Get(d, "moving_time", 0),
     elapsed_time |-> Get(d, "elapsed_time", 0),
     total_elevation_gain |-> Get(d, "total_elevation_gain", 0),
     average_speed |-> Get(d, "average_speed", 0),
     max_speed |-> Get(d, "max_speed", 0),
     has_heartrate |-> Get(d, "has_heartrate", FALSE),
     average_heartrate |-> Get(d, "average_heartrate", 0),
     max_heartrate |-> Get(d, "max_heartrate", 0),
     kudos_count |-> Get(d, "kudos_count", 0),
     achievement_count |-> Get(d, "achievement_count", 0),
     pr_count |-> Get(d, "pr_count", 0),
     json_data |-> json_dumps(d)]

AthleteRow(d) ==
    [id |-> d.id,
     firstname |-> Get(d, "firstname", ""),
     lastname |-> Get(d, "lastname", ""),
     city |-> Get(d, "city", NULL),
     state |-> Get(d, "state", NULL),
     country |-> Get(d, "country", NULL),
     sex |-> Get(d, "sex", NULL),
     profile |-> Get(d, "profile", NULL),
     created_at |-> Get(d, "created_at", NULL),
     weight |-> Get(d, "weight", NULL),
     ftp |-> Get(d, "ftp", NULL),
     json_data |-> json_dumps(d)]

GearRow(d, type) ==
    [id |-> d.id,
     name |-> Get(d, "name", ""),
     type |-> type,
     brand_name |-> Get(d, "brand_name", NULL),
     model_name |-> Get(d, "model_name", NULL),
     description |-> Get(d, "description", NULL),
     distance |-> Get(d, "distance", 0),
     json_data |-> json_dumps(d)]

StatsRow(table, athlete_id, d, clk) ==
    [id |-> NextRowId(table),
     athlete_id |-> athlete_id,
     biggest_ride_distance |-> Get(d, "biggest_ride_distance", 0),
     biggest_climb_elevation_gain |-> Get(d, "biggest_climb_elevation_gain", 0),
     json_data |-> json_dumps(d),
     updated_at |-> int_now(clk)]

(***************************************************************************)
(* INSERT OR REPLACE: the rows in conflict on the primary key id are       *)
(* deleted, then the new row is inserted.                                  *)
(***************************************************************************)
\* INSERT OR IGNORE: a row in conflict on the primary key stays
InsertOrReplace_Ignore(table, row) ==
    IF \E r \in table : r.id = row.id THEN table ELSE table \cup {row}

\* a plain INSERT into a table without a primary key
InsertOrReplace_Append(table, row) == table \cup {row}

InsertOrReplace(table, row) == {r \in table : r.id # row.id} \cup {row}

(***************************************************************************)
(* fetch_strava_activities, lines 376-408: one INSERT OR REPLACE for each  *)
(* record in order; a record whose execute raises is logged and skipped.   *)
(***************************************************************************)
\* the loop without its try/except: it ends at the first record that fails
RECURSIVE save_activities_Abort(_, _)
save_activities_Abort(table, all_activities) ==
    IF all_activities = <<>> THEN table
    ELSE LET activity_data == Head(all_activities) IN
         IF Bindable(activity_data)
         THEN save_activities_Abort(InsertOrReplace(table, ActivityRow(activity_data)),
                                    Tail(all_activities))
         ELSE table

RECURSIVE save_activities(_, _)
save_activities(table, all_activities) ==
    IF all_activities = <<>> THEN table
    ELSE LET activity_data == Head(all_activities) IN
         save_activities(IF Bindable(activity_data)
                         THEN InsertOrReplace(table, ActivityRow(activity_data))
                         ELSE table,
                         Tail(all_activities))

(***************************************************************************)
(* fetch_strava_athlete, lines 475-513: the bikes, then the shoes.         *)
(***************************************************************************)
\* DELETE FROM gear WHERE type = ? before the items of the profile are written
save_gear_Rebuild(table, items, type) ==
    {r \in table : r.type # type} \cup {GearRow(items[i], type) : i \in 1..Len(items)}

RECURSIVE save_gear(_, _, _)
save_gear(table, items, type) ==
    IF items = <<>> THEN table
    ELSE save_gear(InsertOrReplace(table, GearRow(Head(items), type)), Tail(items), type)

(***************************************************************************)
(* fetch_activity_details, lines 526-552: UPDATE activities SET thirteen   *)
(* columns WHERE id = activity_id.  start_date, kudos_count,               *)
(* achievement_count and pr_count are not in the SET list; a missing row   *)
(* stays missing.                                                          *)
(***************************************************************************)
update_activity(table, activity_id, d) ==
    {IF r.id # activity_id THEN r
     ELSE [r EXCEPT !.name = Get(d, "name", ""),
                    !.type = Get(d, "type", ""),
                    !.sport_type = Get(d, "sport_type", NULL),
                    !.distance = Get(d, "distance", 0),
                    !.moving_time = Get(d, "moving_time", 0),
                    !.elapsed_time = Get(d, "elapsed_time", 0),
                    !.total_elevation_gain = Get(d, "total_elevation_gain", 0),
                    !.average_speed = Get(d, "average_speed", 0),
                    !.max_speed = Get(d, "max_speed", 0),
                    !.has_heartrate = Get(d, "has_heartrate", FALSE),
                    !.average_heartrate = Get(d, "average_heartrate", 0),
                    !.max_heartrate = Get(d, "max_heartrate", 0),
                    !.json_data = json_dumps(d)]
     : r \in table}

(***************************************************************************)
(* get_strava_access_token (strava-sync.py): with a refresh token it posts *)
(* the token, the client id and the client secret to STRAVA_TOKEN_URL;     *)
(* without one it runs the browser authorization and posts the code it got *)
(* (exchange_code_for_token).  A network failure is not caught here.       *)
(***************************************************************************)
token_request(client_id, client_secret, refresh_token) ==
    IF refresh_token = NoToken
    THEN Post("STRAVA_TOKEN_URL",
              [client_id |-> client_id, client_secret |-> client_secret,
               code |-> "AUTH_CODE", grant_type |-> "authorization_code"])
    ELSE Post("STRAVA_TOKEN_URL",
              [client_id |-> client_id, client_secret |-> client_secret,
               refresh_token |-> refresh_token, grant_type |-> "refresh_token"])

get_strava_access_token(client_id, client_secret, refresh_token, response) ==
    IF client_id = NoToken \/ client_secret = NoToken
    THEN Raise("ValueError", "Missing Strava API credentials")
    ELSE IF response.kind = "error"
    THEN Raise("RequestException", "")
    ELSE IF response.status # 200
    THEN Raise("Exception",
               IF refresh_token = NoToken THEN "Failed to exchange code for token"
               ELSE "Failed to refresh token")
    ELSE IF ~(TokenFields \subseteq DOMAIN response.body)
    THEN Raise("KeyError", FirstMissing(response.body))
    ELSE TokenInfo(response.body.access_token, response.body.refresh_token,
                   response.body.expires_at)

(***************************************************************************)
(* strava_api_request: the request sent for a method and what the call     *)
(* returns or raises for an answer; raise_for_status turns a 4xx/5xx into  *)
(* a RequestException, which is re-raised as Exception.                    *)
(***************************************************************************)
Upper(method) ==
    CASE method = "get" -> "GET"
      [] method = "post" -> "POST"
      [] method = "put" -> "PUT"
      [] method = "delete" -> "DELETE"

\* the entry of the request log: the request and, of its answer, whether it
\* arrived with a status below 400 and how many records it lists
Answered(response) == response.kind = "http" /\ response.status < 400

\* a request sent with requests.post whatever the method asked for
api_request_Post(method, endpoint, params, response) ==
    [method |-> "POST", url |-> endpoint, body |-> params,
     ok |-> Answered(response),
     n |-> IF Answered(response) /\ endpoint = "athlete/activities"
           THEN Len(response.body) ELSE 0]

api_request(method, endpoint, params, response) ==
    [method |-> Upper(method), url |-> endpoint, body |-> params,
     ok |-> Answered(response),
     n |-> IF Answered(response) /\ endpoint = "athlete/activities"
           THEN Len(response.body) ELSE 0]

strava_api_request(method, endpoint, response) ==
    IF response.kind = "error" \/ response.status >= 400
    THEN Raise("Exception", "Strava API request failed")
    ELSE [tag |-> "json", value |-> response.body]

DataFailures == {NetError, Http(500, [error |-> "Internal Server Error"])}

(***************************************************************************)
(* The provider of GET athlete/activities.  It serves the records of       *)
(* remote.feed in order, any number from 0 to MaxPageSize on a page, and   *)
(* an empty page once the feed is exhausted; an endless provider starts    *)
(* over at the end of the feed and never serves an empty page.             *)
(***************************************************************************)
Min(a, b) == IF a < b THEN a ELSE b

Chunk(feed, offset, k) == [i \in 1..k |-> feed[((offset + i - 1) % Len(feed)) + 1]]

Pages(rem, offset) ==
    IF rem.endless
    THEN {Chunk(rem.feed, offset, k) : k \in 1..MaxPageSize}
    ELSE {Chunk(rem.feed, offset, k) : k \in 0..Min(MaxPageSize, Len(rem.feed) - offset)}

(***************************************************************************)
(* main, line 664: page_limit = None if args.full_sync else args.pages or  *)
(* 30.  An optional integer is the empty set or a singleton.               *)
(***************************************************************************)
Truthy(opt) == opt # {} /\ opt # {0}

\* args.pages if args.pages is not None else 30
page_limit_of_ZeroKept(args) ==
    IF args.full_sync THEN {} ELSE IF args.pages # {} THEN args.pages ELSE {DefaultPages}

page_limit_of(args) ==
    IF args.full_sync THEN {} ELSE IF Truthy(args.pages) THEN args.pages ELSE {DefaultPages}

Value(opt) == CHOOSE x \in opt : TRUE

(***************************************************************************)
(* fetch_strava_activities, the two exits of the while loop: an empty page *)
(* (line 357) and the page limit (line 370, tested after page += 1).       *)
(***************************************************************************)
\* the test of the empty page left out
IsEmptyPage_Never(activities_page) == FALSE

IsEmptyPage(activities_page) == activities_page = <<>>

\* the test of the page limit left out
LimitReached_Never(page_limit, page) == FALSE

\* >= in place of >
LimitReached_OffByOne(page_limit, page) == Truthy(page_limit) /\ page >= Value(page_limit)

LimitReached(page_limit, page) == Truthy(page_limit) /\ page > Value(page_limit)

(***************************************************************************)
(* State of an installation before anything ran: no database file yet.     *)
(***************************************************************************)
IdleLoc ==
    [access_token |-> "", activity_id |-> {}, page_limit |-> {}, page |-> 1,
     all_activities |-> <<>>, athlete_data |-> None]

NoRemote == [athlete |-> None, stats |-> None, feed |-> <<>>, endless |-> FALSE]

Env(refresh_token, client_secret) ==
    [STRAVA_REFRESH_TOKEN |-> refresh_token, STRAVA_CLIENT_ID |-> "26565",
     STRAVA_CLIENT_SECRET |-> client_secret]

InitWith(Envs) ==
    /\ clock = 0
    /\ env \in Envs
    /\ schema = <<>>
    /\ auth_token = {}
    /\ activities = {}
    /\ athlete = {}
    /\ athlete_stats = {}
    /\ gear = {}
    /\ pc = "idle"
    /\ loc = IdleLoc
    /\ remote = NoRemote
    /\ requests = <<>>
    /\ result = [op |-> "none"]

(***************************************************************************)
(* Time passes.                                                            *)
(***************************************************************************)
Tick ==
    /\ clock < MaxClock
    /\ clock' = clock + 1
    /\ UNCHANGED <<env, schema, auth_token, activities, athlete, athlete_stats,
                   gear, pc, loc, remote, requests, result>>

(***************************************************************************)
(* One call of ensure_token() in the MCP server, the token service         *)
(* answering a refresh request with response.                              *)
(***************************************************************************)
EnsureTokenWith(response) ==
    /\ pc = "idle"
    /\ \E later \in clock..Min(clock + 1, MaxClock) :
         \E o \in ensure_token(schema, auth_token, env.STRAVA_REFRESH_TOKEN,
                               clock, response, later) :
            /\ Cardinality(o.auth_token) <= MaxRows
            /\ auth_token' = o.auth_token
            /\ clock' = o.clock
            /\ requests' = o.requests
            /\ result' = [op |-> "ensure_token", out |-> o.out]
    /\ UNCHANGED <<env, schema, activities, athlete, athlete_stats, gear, pc, loc, remote>>

EnsureToken == \E response \in TokenServiceResponses : EnsureTokenWith(response)

(***************************************************************************)
(* strava-sync.py main().  A step runs main from one HTTP request to the   *)
(* next; the except clause of main turns every exception into return 1.    *)
(***************************************************************************)
MainResult(value, error, count) ==
    [op |-> "main", out |-> [tag |-> "return", value |-> value],
     error |-> error, activity_count |-> count]

Running == [op |-> "main", out |-> [tag |-> "running"]]

\* an except clause of main that returns 0
Return_Zero(kept, value, error, count) ==
    /\ pc' = "idle"
    /\ loc' = [IdleLoc EXCEPT !.page_limit = kept]
    /\ remote' = NoRemote
    /\ result' = MainResult(0, error, count)

\* main has ended: of its frame only the page limit it ran with is kept on
\* record; the connection to the provider is gone
Return(kept, value, error, count) ==
    /\ pc' = "idle"
    /\ loc' = [IdleLoc EXCEPT !.page_limit = kept]
    /\ remote' = NoRemote
    /\ result' = MainResult(value, error, count)

\* lines 616-654: arguments, init_db, access token, store_token.  init_db
\* runs before the try block: an exception of it leaves main.
MainStart(Args, Responses, Remotes) ==
    /\ pc = "idle"
    /\ LET client_id == env.STRAVA_CLIENT_ID
           client_secret == env.STRAVA_CLIENT_SECRET
           db == init_db(Database(schema, auth_token, activities, athlete,
                                  athlete_stats, gear))
       IN IF client_id = NoToken \/ client_secret = NoToken
          THEN /\ Return({}, 1, Raise("log", "Missing Strava API credentials"), {})
               /\ requests' = <<>>
               /\ UNCHANGED <<schema, auth_token, activities, athlete,
                              athlete_stats, gear>>
          ELSE /\ Cardinality(auth_token) < MaxRows
               /\ schema' = db.schema
               /\ activities' = db.activities
               /\ athlete' = db.athlete
               /\ athlete_stats' = db.athlete_stats
               /\ gear' = db.gear
               /\ IF db.error
                  THEN /\ pc' = "idle"
                       /\ loc' = IdleLoc
                       /\ remote' = NoRemote
                       /\ result' = [op |-> "main",
                                     out |-> Raise("OperationalError", "already exists")]
                       /\ requests' = <<>>
                       /\ auth_token' = db.auth_token
                  ELSE \E args \in Args, response \in Responses :
                         LET refresh_token ==
                                 IF args.refresh_token # NoToken THEN args.refresh_token
                                 ELSE env.STRAVA_REFRESH_TOKEN
                             token == get_strava_access_token(client_id, client_secret,
                                                              refresh_token, response)
                         IN /\ requests' = <<token_request(client_id, client_secret,
                                                           refresh_token)>>
                            /\ IF token.tag = "raise"
                               THEN /\ Return({}, 1, token, {})
                                    /\ auth_token' = db.auth_token
                               ELSE /\ auth_token' = store_token(db.auth_token,
                                                                 token.access_token,
                                                                 token.refresh_token,
                                                                 token.expires_at, clock)
                                    /\ loc' = [IdleLoc EXCEPT
                                                 !.access_token = token.access_token,
                                                 !.activity_id = args.activity_id,
                                                 !.page_limit = page_limit_of(args)]
                                    /\ result' = Running
                                    /\ IF args.activity_id # {}
                                       THEN /\ pc' = "details"
                                            /\ remote' = NoRemote
                                       ELSE /\ pc' = "athlete"
                                            /\ remote' \in Remotes
    /\ UNCHANGED <<clock, env>>

\* fetch_activity_details
MainDetails ==
    /\ pc = "details"
    /\ LET activity_id == Value(loc.activity_id) IN
       \E response \in DataFailures \cup {Http(200, Detail(activity_id, v)) : v \in 1..MaxVer} :
         LET got == strava_api_request("get", "activities/{id}", response) IN
         /\ requests' = Append(requests, api_request("get", "activities/{id}",
                                                     [id |-> activity_id], response))
         /\ IF got.tag = "raise"
            THEN /\ Return(loc.page_limit, 1, got, {})
                 /\ UNCHANGED activities
            ELSE /\ activities' = update_activity(activities, activity_id, got.value)
                 /\ Return(loc.page_limit, 0, None, {})
    /\ UNCHANGED <<clock, env, schema, auth_token, athlete, athlete_stats, gear>>

\* fetch_strava_athlete, lines 415-445: the profile
MainAthlete ==
    /\ pc = "athlete"
    /\ \E response \in DataFailures \cup {Http(200, remote.athlete)} :
         LET got == strava_api_request("get", "athlete", response) IN
         /\ requests' = Append(requests, api_request("get", "athlete", <<>>, response))
         /\ IF got.tag = "raise"
            THEN /\ Return(loc.page_limit, 1, got, {})
                 /\ UNCHANGED athlete
            ELSE /\ athlete' = InsertOrReplace(athlete, AthleteRow(got.value))
                 /\ pc' = "stats"
                 /\ loc' = [loc EXCEPT !.athlete_data = got.value]
                 /\ UNCHANGED <<remote, result>>
    /\ UNCHANGED <<clock, env, schema, auth_token, activities, athlete_stats, gear>>

\* fetch_strava_athlete, lines 447-518: the stats (a failure is logged and
\* swallowed), then the gear; main, line 664
MainStats ==
    /\ pc = "stats"
    /\ \E response \in DataFailures \cup {Http(200, remote.stats)} :
         LET athlete_data == loc.athlete_data
             got == strava_api_request("get", "athletes/{id}/stats", response)
         IN
         /\ requests' = Append(requests, api_request("get", "athletes/{id}/stats",
                                                     [id |-> athlete_data.id], response))
         /\ athlete_stats' =
              IF got.tag = "raise" THEN athlete_stats
              ELSE InsertOrReplace(athlete_stats,
                                   StatsRow(athlete_stats, athlete_data.id, got.value, clock))
         /\ gear' = save_gear(save_gear(gear, Get(athlete_data, "bikes", <<>>), "bike"),
                              Get(athlete_data, "shoes", <<>>), "shoe")
         /\ pc' = "activities"
         /\ loc' = [loc EXCEPT !.page = 1, !.all_activities = <<>>]
    /\ UNCHANGED <<clock, env, schema, auth_token, activities, athlete, remote, result>>

\* a page loop that writes what it has fetched when a request fails
MainPage_SavesOnFailure ==
    /\ pc = "activities"
    /\ loc.page <= MaxPage
    /\ \E response \in DataFailures
                      \cup {Http(200, p) : p \in Pages(remote, Len(loc.all_activities))} :
         LET got == strava_api_request("get", "athlete/activities", response)
             all_activities == loc.all_activities \o got.value
             page == loc.page + 1
         IN
         /\ requests' = Append(requests,
                               api_request("get", "athlete/activities",
                                           [page |-> loc.page, per_page |-> per_page],
                                           response))
         /\ IF got.tag = "raise"
            THEN /\ Return(loc.page_limit, 1, got, {})
                 /\ activities' = save_activities(activities, loc.all_activities)
            ELSE IF IsEmptyPage(got.value)
            THEN /\ activities' = save_activities(activities, loc.all_activities)
                 /\ Return(loc.page_limit, 0, None, {Len(loc.all_activities)})
            ELSE IF LimitReached(loc.page_limit, page)
            THEN /\ activities' = save_activities(activities, all_activities)
                 /\ Return(loc.page_limit, 0, None, {Len(all_activities)})
            ELSE /\ loc' = [loc EXCEPT !.page = page, !.all_activities = all_activities]
                 /\ UNCHANGED <<activities, pc, remote, result>>
    /\ UNCHANGED <<clock, env, schema, auth_token, athlete, athlete_stats, gear>>

\* fetch_strava_activities: one turn of the while loop and, when the loop
\* ends, the writes, the commit and the rest of main
MainPage ==
    /\ pc = "activities"
    /\ loc.page <= MaxPage
    /\ \E response \in DataFailures
                      \cup {Http(200, p) : p \in Pages(remote, Len(loc.all_activities))} :
         LET got == strava_api_request("get", "athlete/activities", response)
             all_activities == loc.all_activities \o got.value
             page == loc.page + 1
         IN
         /\ requests' = Append(requests,
                               api_request("get", "athlete/activities",
                                           [page |-> loc.page, per_page |-> per_page],
                                           response))
         /\ IF got.tag = "raise"
            THEN /\ Return(loc.page_limit, 1, got, {})
                 /\ UNCHANGED activities
            ELSE IF IsEmptyPage(got.value)
            THEN /\ activities' = save_activities(activities, loc.all_activities)
                 /\ Return(loc.page_limit, 0, None, {Len(loc.all_activities)})
            ELSE IF LimitReached(loc.page_limit, page)
            THEN /\ activities' = save_activities(activities, all_activities)
                 /\ Return(loc.page_limit, 0, None, {Len(all_activities)})
            ELSE /\ loc' = [loc EXCEPT !.page = page, !.all_activities = all_activities]
                 /\ UNCHANGED <<activities, pc, remote, result>>
    /\ UNCHANGED <<clock, env, schema, auth_token, athlete, athlete_stats, gear>>

(***************************************************************************)
(* Inputs.                                                                 *)
(***************************************************************************)
Args(refresh_token, activity_id, full_sync, pages) ==
    [refresh_token |-> refresh_token, activity_id |-> activity_id,
     full_sync |-> full_sync, pages |-> pages]

Envs == {Env(r, s) : r \in {NoToken, ConfiguredRefresh}, s \in {NoToken, "secret"}}

Remote(v, feed, endless) ==
    [athlete |-> Athlete(v), stats |-> Stats(v), feed |-> feed, endless |-> endless]

(***************************************************************************)
(* SpecToken: the credential operations.  The MCP server calls             *)
(* ensure_token; strava-sync runs with --activity-id.                      *)
(***************************************************************************)
DetailArgs == {Args(r, {1}, FALSE, {}) : r \in {NoToken, ConfiguredRefresh}}

\* --activity-id runs request no page of the activity list
DetailRemotes == {Remote(1, <<>>, FALSE)}

InitToken == InitWith(Envs)

MainStartToken == MainStart(DetailArgs, UpstreamResponses, DetailRemotes)

NextToken ==
    \/ Tick
    \/ EnsureToken
    \/ MainStartToken
    \/ MainDetails

SpecToken == InitToken /\ [][NextToken]_vars

(***************************************************************************)
(* SpecFetch: strava-sync runs against providers that differ in the feed   *)
(* they serve, with and without a page limit.                              *)
(***************************************************************************)
Feed(n) == [i \in 1..n |-> Activity(i, 1)]

FetchRemotes ==
    {Remote(1, Feed(n), FALSE) : n \in 0..MaxFeed} \cup {Remote(1, Feed(2), TRUE)}

FetchArgs ==
    {Args(NoToken, {}, f, p) : f \in BOOLEAN, p \in {{}} \cup {{n} : n \in 0..MaxPage}}

OkResponses == {Http(200, TokenBody(1, Margin))}

InitFetch == InitWith({Env(ConfiguredRefresh, "secret")})

MainStartFetch == MainStart(FetchArgs, OkResponses, FetchRemotes)

NextFetch ==
    \/ MainStartFetch
    \/ MainAthlete
    \/ MainStats
    \/ MainPage

SpecFetch == InitFetch /\ [][NextFetch]_vars

(***************************************************************************)
(* SpecFetchLive: SpecFetch with a main that keeps running: requests are   *)
(* bound by REQUEST_TIMEOUT, so each request of the page loop is answered  *)
(* or fails, and the loop takes its next turn.                             *)
(***************************************************************************)
SpecFetchLive == SpecFetch /\ WF_vars(MainPage)

(***************************************************************************)
(* Spec: strava-sync runs, as a sync and with --activity-id, against a     *)
(* remote whose records change from run to run and repeat ids.             *)
(***************************************************************************)
SyncPayloads == {Activity(1, 1), Sparse(1, 2), Unbindable(1), Activity(2, 1)}

RECURSIVE SeqsUpTo(_, _)
SeqsUpTo(S, n) ==
    IF n = 0 THEN {<<>>}
    ELSE SeqsUpTo(S, n - 1)
         \cup {Append(q, x) : q \in {t \in SeqsUpTo(S, n - 1) : Len(t) = n - 1}, x \in S}

SyncRemotes == {Remote(v, feed, FALSE) : v \in 1..MaxVer, feed \in SeqsUpTo(SyncPayloads, MaxBatch)}

SyncArgs == {Args(NoToken, {}, FALSE, {}), Args(NoToken, {1}, FALSE, {})}

\* what STRAVA_TOKEN_URL answers in these runs: a usable token, or nothing
SyncResponses == OkResponses \cup {NetError}

Init == InitWith({Env(ConfiguredRefresh, "secret")})

MainStartSync == MainStart(SyncArgs, SyncResponses, SyncRemotes)

Next ==
    \/ MainStartSync
    \/ MainAthlete
    \/ MainStats
    \/ MainPage
    \/ MainDetails

Spec == Init /\ [][Next]_vars

(***************************************************************************)
(* SpecCore: the runs of strava-sync of Spec and, between them, calls of   *)
(* ensure_token in the MCP server on the same database.                    *)
(***************************************************************************)
InitCore == InitWith({Env(ConfiguredRefresh, "secret")})

EnsureTokenCore == \E response \in SyncResponses : EnsureTokenWith(response)

CorePayloads == {Activity(1, 1), Activity(2, 1), Unbindable(1)}

CoreRemotes ==
    {Remote(v, feed, FALSE) : v \in 1..MaxVer, feed \in SeqsUpTo(CorePayloads, MaxCoreFeed)}

MainStartCore == MainStart(SyncArgs, SyncResponses, CoreRemotes)

NextCore ==
    \/ EnsureTokenCore
    \/ MainStartCore
    \/ MainAthlete
    \/ MainStats
    \/ MainPage
    \/ MainDetails

SpecCore == InitCore /\ [][NextCore]_vars

(***************************************************************************)
(* SpecRerun: strava-sync runs again and again as a sync against a remote  *)
(* whose data do not change: a profile with two bikes and a shoe, one of   *)
(* the bikes under the id of the shoe, and a feed with a repeated id and a *)
(* record that cannot be written.                                          *)
(***************************************************************************)
RerunFeed == <<Activity(1, 1), Unbindable(1), Sparse(1, 2), Activity(2, 1)>>

RerunRemote == Remote(2, RerunFeed, FALSE)

RerunRemotes == {RerunRemote}

RerunArgs == {Args(NoToken, {}, FALSE, {})}

InitRerun == InitWith({Env(ConfiguredRefresh, "secret")})

MainStartRerun == MainStart(RerunArgs, SyncResponses, RerunRemotes)

NextRerun ==
    \/ MainStartRerun
    \/ MainAthlete
    \/ MainStats
    \/ MainPage

SpecRerun == InitRerun /\ [][NextRerun]_vars

(***************************************************************************)
(* SpecBroker: the token service of backend.py answers a sequence of       *)
(* POST /refresh-token and POST /exchange-token requests.  requests holds  *)
(* each request it received followed by the one it sent to Strava, if any; *)
(* result holds the last request body, Strava's answer and its own.        *)
(***************************************************************************)
NotJson == None     \* a body request.get_json() does not return a dict for

BrokerBodies ==
    {NotJson, <<>>, [code |-> "AUTH_CODE"]}
    \cup {[refresh_token |-> r] : r \in {ConfiguredRefresh} \cup {RefreshNames[n] : n \in 1..MaxTok}}

IsBrokerRequest(req) == req.url \in {"/refresh-token", "/exchange-token"}

BrokerResult(op, data, upstream, out) ==
    [op |-> op, data |-> data, upstream |-> upstream, out |-> out]

InitBroker == InitWith({Env(ConfiguredRefresh, NoToken)})

\* get_json() on a body that is not JSON gives None (the 400 of the test)
\* or raises (the 500 of the except clause), by the version of Flask
RefreshToken ==
    /\ pc = "idle"
    /\ Len(SelectSeq(requests, IsBrokerRequest)) < MaxBrokerCalls
    /\ \E data \in BrokerBodies, upstream \in UpstreamResponses :
         LET received == Append(requests, Post("/refresh-token", data)) IN
         IF data = NotJson
         THEN /\ requests' = received
              /\ \E out \in {Http(400, [error |-> "Missing refresh token"]),
                             Http(500, [error |-> "Internal server error"])} :
                    result' = BrokerResult("refresh_access_token", data, None, out)
         ELSE IF "refresh_token" \notin DOMAIN data
         THEN /\ requests' = received
              /\ result' = BrokerResult("refresh_access_token", data, None,
                                        refresh_access_token(data, upstream))
         ELSE /\ requests' = Append(received, broker_refresh_request(data))
              /\ result' = BrokerResult("refresh_access_token", data, upstream,
                                        refresh_access_token(data, upstream))
    /\ UNCHANGED <<clock, env, schema, auth_token, activities, athlete, athlete_stats,
                   gear, pc, loc, remote>>

ExchangeToken ==
    /\ pc = "idle"
    /\ Len(SelectSeq(requests, IsBrokerRequest)) < MaxBrokerCalls
    /\ \E data \in BrokerBodies, upstream \in UpstreamResponses :
         LET received == Append(requests, Post("/exchange-token", data)) IN
         IF data = NotJson
         THEN /\ requests' = received
              /\ \E out \in {Http(400, [error |-> "Missing authorization code"]),
                             Http(500, [error |-> "Internal server error"])} :
                    result' = BrokerResult("exchange_token", data, None, out)
         ELSE IF "code" \notin DOMAIN data
         THEN /\ requests' = received
              /\ result' = BrokerResult("exchange_token", data, None,
                                        exchange_token(data, upstream))
         ELSE /\ requests' = Append(received, broker_exchange_request(data))
              /\ result' = BrokerResult("exchange_token", data, upstream,
                                        exchange_token(data, upstream))
    /\ UNCHANGED <<clock, env, schema, auth_token, activities, athlete, athlete_stats,
                   gear, pc, loc, remote>>

NextBroker ==
    \/ RefreshToken
    \/ ExchangeToken

SpecBroker == InitBroker /\ [][NextBroker]_vars

(***************************************************************************)
(* Properties of the credential operations (SpecToken).                    *)
(***************************************************************************)
\* the rows get_stored_token can select are all usable / all unusable now
TableExists == Exists(schema, "auth_token")
AllTopUsable == \A r \in TopRows(auth_token) : 2 * r.expires_at >= clock + 2 * Margin
NoneTopUsable == \A r \in TopRows(auth_token) : 2 * r.expires_at < clock + 2 * Margin

IsRefreshRequest(req) ==
    /\ req.method = "POST"
    /\ "refresh_token" \in DOMAIN req.body

\* C1: when the most recently created credential has expires_at >= now + 60 s,
\* ensure_token returns the token of that credential, sends no request and
\* writes nothing to the Token Store.
C1_UsableTokenNoNetwork ==
    [][(auth_token # {} /\ AllTopUsable /\ result'.op = "ensure_token" /\ EnsureToken)
         => /\ result'.out.tag = "TokenInfo"
            /\ \E r \in TopRows(auth_token) :
                  /\ result'.out.access_token = r.access_token
                  /\ result'.out.expires_at = r.expires_at
            /\ requests' = <<>>
            /\ auth_token' = auth_token]_vars

\* ensure_token has returned a stored token whose expires_at is exactly now + 60 s
C1_Witness ==
    /\ result.op = "ensure_token"
    /\ result.out.tag = "TokenInfo"
    /\ requests = <<>>
    /\ \E r \in TopRows(auth_token) :
          /\ r.access_token = result.out.access_token
          /\ 2 * r.expires_at = clock + 2 * Margin

\* a refresh token is available from the Token Store or from the configuration
RefreshTokenAvailable ==
    \/ env.STRAVA_REFRESH_TOKEN # NoToken
    \/ \E r \in TopRows(auth_token) : r.refresh_token # NoToken

NewRow(old, new, token) ==
    \E row \in new :
       /\ new = old \cup {row}
       /\ row \notin old
       /\ row.access_token = token.access_token
       /\ row.refresh_token = token.refresh_token
       /\ row.expires_at = token.expires_at

\* C2: with no usable credential in the Token Store and a refresh token
\* available, one call of ensure_token sends exactly one refresh request and,
\* when it succeeds, appends exactly one credential made of the answer and
\* returns its access token.
C2_RefreshOnceAndPersist ==
    [][\A response \in TokenServiceResponses :
         (/\ TableExists /\ NoneTopUsable /\ RefreshTokenAvailable
          /\ result'.op = "ensure_token" /\ EnsureTokenWith(response))
           => /\ Len(requests') = 1
              /\ IsRefreshRequest(requests'[1])
              /\ (response.kind = "http" /\ response.status = 200
                  /\ TokenFields \subseteq DOMAIN response.body)
                   => /\ result'.out.tag = "TokenInfo"
                      /\ result'.out.access_token = response.body.access_token
                      /\ result'.out.refresh_token = response.body.refresh_token
                      /\ result'.out.expires_at = response.body.expires_at
                      /\ NewRow(auth_token, auth_token', result'.out)]_vars

\* C3: a refresh request carries the refresh token of the most recently stored
\* credential whenever the Token Store holds a credential, and the configured
\* refresh token only when it holds none.
C3_RefreshUsesStoredToken ==
    [][(/\ requests' # <<>> /\ IsRefreshRequest(requests'[1])
        /\ result'.op \in {"ensure_token", "main"}
        /\ (EnsureToken \/ MainStartToken))
         => IF auth_token # {}
            THEN \E r \in TopRows(auth_token) :
                    requests'[1].body.refresh_token = r.refresh_token
            ELSE requests'[1].body.refresh_token = ConfiguredRefresh]_vars

NoRefreshTokenAvailable(out) ==
    /\ out.tag = "raise"
    /\ out.type = "ValueError"
    /\ out.arg = "No refresh token available. Please re-run the setup tool."

\* strava-sync started without --refresh-token
MainStartNoArg ==
    MainStart({Args(NoToken, {1}, FALSE, {})}, UpstreamResponses, DetailRemotes)

C5_MalformedLeavesStore ==
    [][\A b \in MalformedBodies :
         (requests' # <<>> /\ result'.op = "ensure_token" /\ EnsureTokenWith(Http(200, b)))
           => /\ result'.out.tag = "raise"
              /\ result'.out.cause.type = "KeyError"
              /\ result'.out.cause.arg \in TokenFields \ DOMAIN b
              /\ auth_token' = auth_token]_vars

\* ensure_token has failed on an answer without access_token, rows being stored
C5_Witness ==
    /\ result.op = "ensure_token"
    /\ result.out.tag = "raise"
    /\ result.out.type = "Exception"
    /\ result.out.cause = [type |-> "KeyError", arg |-> "access_token"]
    /\ Len(requests) = 1
    /\ auth_token # {}

\* the cause a caller reads off the exception ensure_token raised
CauseOf(exc) ==
    IF "cause" \notin DOMAIN exc THEN "Other"
    ELSE IF exc.cause.type = "RequestException" THEN "BrokerUnavailable"
    ELSE IF exc.cause.type = "KeyError" THEN "MalformedResponse"
    ELSE IF exc.cause.type = "Exception" /\ exc.cause.arg = "Token refresh failed"
    THEN "TokenRejected"
    ELSE "Other"

\* the cause of the failure of a refresh, read off what happened on the wire
CauseOnWire(response) ==
    IF response.kind = "error" THEN "BrokerUnavailable"
    ELSE IF response = refresh_access_token([refresh_token |-> ConfiguredRefresh],
                                            Http(400, [error |-> "Bad Request"]))
    THEN "TokenRejected"
    ELSE IF response.status = 200 /\ ~(TokenFields \subseteq DOMAIN response.body)
    THEN "MalformedResponse"
    ELSE "Other"

\* C6: a failed refresh ends ensure_token with the exception raised by the
\* refresh, which tells a network failure, a rejection of the refresh token
\* and an answer lacking a member apart, and the Token Store is unchanged.
C6_RefreshErrorsTellCause ==
    [][\A response \in TokenServiceResponses :
         (/\ requests' # <<>> /\ result'.op = "ensure_token" /\ result'.out.tag = "raise"
          /\ EnsureTokenWith(response))
           => /\ result'.out = refresh_strava_access_token(response)
              /\ result'.out.type = "Exception"
              /\ CauseOf(result'.out) = CauseOnWire(response)
              /\ auth_token' = auth_token]_vars

\* ensure_token has failed because the upstream rejected the refresh token
C6_Witness ==
    /\ result.op = "ensure_token"
    /\ result.out.tag = "raise"
    /\ Len(requests) = 1
    /\ CauseOf(result.out) = "TokenRejected"

(***************************************************************************)
(* Properties of the fetch of the activity pages (SpecFetch).              *)
(***************************************************************************)
IsPageRequest(req) == req.url = "athlete/activities"

PageEntries(reqs) == SelectSeq(reqs, IsPageRequest)

RECURSIVE Records(_)
Records(pages) == IF pages = <<>> THEN 0 ELSE Head(pages).n + Records(Tail(pages))

Success(res) == res.op = "main" /\ res.out.tag = "return" /\ res.out.value = 0

\* the records of the first total places of the feed are in the table, and
\* the table holds no id but those and the ones it held
Ingested(before, after, feed, total) ==
    /\ \A i \in 1..total : ActivityRow(Chunk(feed, 0, total)[i]) \in after
    /\ {r.id : r \in after} =
         {r.id : r \in before} \cup {Chunk(feed, 0, total)[i].id : i \in 1..total}

\* C7: without a page limit the fetch requests the pages 1, 2, ... in order,
\* requests nothing after an empty page, and when the provider has served n
\* non-empty pages and then an empty one it returns and stores the records of
\* the n pages.
C7_UnlimitedStopsAtEmptyPage ==
    [][(pc = "activities" /\ loc.page_limit = {} /\ MainPage)
         => LET pages == PageEntries(requests')
                n == Len(pages) - 1
            IN /\ \A i \in 1..Len(pages) : pages[i].body.page = i
               /\ \A i \in 1..n : pages[i].ok /\ pages[i].n > 0
               /\ (pages[n + 1].ok /\ pages[n + 1].n > 0) => pc' = "activities"
               /\ (pages[n + 1].ok /\ pages[n + 1].n = 0)
                    => /\ pc' = "idle"
                       /\ Success(result')
                       /\ result'.activity_count = {Records(pages)}
                       /\ Ingested(activities, activities', remote.feed, Records(pages))]_vars

\* a full sync has ended on the fourth page after three non-empty pages
C7_Witness ==
    /\ pc = "idle"
    /\ Success(result)
    /\ loc.page_limit = {}
    /\ LET pages == PageEntries(requests) IN
       /\ Len(pages) = 4
       /\ \A i \in 1..3 : pages[i].n > 0
       /\ pages[4].n = 0
       /\ result.activity_count = {Records(pages)}
       /\ Cardinality(activities) = Records(pages)

\* C8: with a page limit L >= 1 and a provider that serves no empty page the
\* fetch requests the pages 1..L and no other, and returns and stores the
\* records of those L pages.
C8_PageLimitStops ==
    [][(pc = "activities" /\ Truthy(loc.page_limit) /\ MainPage)
         => LET L == Value(loc.page_limit)
                pages == PageEntries(requests')
            IN /\ Len(pages) <= L
               /\ \A i \in 1..Len(pages) : pages[i].body.page = i
               /\ (\A i \in 1..Len(pages) : pages[i].ok /\ pages[i].n > 0)
                    => IF Len(pages) < L
                       THEN pc' = "activities"
                       ELSE /\ pc' = "idle"
                            /\ Success(result')
                            /\ result'.activity_count = {Records(pages)}
                            /\ Ingested(activities, activities', remote.feed,
                                        Records(pages))]_vars

\* a sync with --pages 2 has ended after two full pages
C8_Witness ==
    /\ pc = "idle"
    /\ Success(result)
    /\ loc.page_limit = {2}
    /\ LET pages == PageEntries(requests) IN
       /\ Len(pages) = 2
       /\ pages[1].n = MaxPageSize
       /\ pages[2].n = MaxPageSize
       /\ result.activity_count = {2 * MaxPageSize}
       /\ Cardinality(activities) = 2 * MaxPageSize

(***************************************************************************)
(* Properties of the writes (Spec).                                        *)
(***************************************************************************)
\* the record written last among those of items that have the id of items[i]
IsLastWithId(items, i) == \A j \in (i + 1)..Len(items) : items[j].id # items[i].id

Written(all) == SelectSeq(all, Bindable)

GearItems(d) == Get(d, "bikes", <<>>) \o Get(d, "shoes", <<>>)

GearType(d, i) == IF i <= Len(Get(d, "bikes", <<>>)) THEN "bike" ELSE "shoe"

\* C9: after the upserts of a run, each primary key written has exactly one
\* row, and every column of it has the value derived from the record written
\* last under that key, whatever row the table held for the key before.
C9_UpsertLastWriteWins ==
    [][/\ (pc = "activities" /\ Success(result') /\ MainPage)
            => LET items == Written(loc.all_activities) IN
               \A i \in 1..Len(items) :
                  IsLastWithId(items, i)
                    => {r \in activities' : r.id = items[i].id} = {ActivityRow(items[i])}
       /\ (pc = "athlete" /\ pc' = "stats" /\ MainAthlete)
            => {r \in athlete' : r.id = loc'.athlete_data.id}
                 = {AthleteRow(loc'.athlete_data)}
       /\ (pc = "stats" /\ MainStats)
            => LET items == GearItems(loc.athlete_data) IN
               \A i \in 1..Len(items) :
                  IsLastWithId(items, i)
                    => {r \in gear' : r.id = items[i].id}
                         = {GearRow(items[i], GearType(loc.athlete_data, i))}]_vars

\* a second sync has ended: its batch wrote activity 1 twice and the sparse
\* record written last stands; gear g1, written as a bike and then as a
\* shoe, is a shoe
C9_Witness ==
    /\ pc = "idle"
    /\ Success(result)
    /\ result.activity_count = {2}
    /\ activities = {ActivityRow(Sparse(1, 2))}
    /\ athlete = {AthleteRow(Athlete(2))}
    /\ \E r \in gear : r.id = "g1" /\ r.type = "shoe"
    /\ Cardinality(auth_token) = 2

Range(q) == {q[i] : i \in DOMAIN q}

\* C10: init_db raises no error however often it runs, the tables and
\* indexes after a later run are those after the first, none twice, and no
\* row that was in the store is changed.
C10_InitDbIdempotent ==
    [][(pc = "idle" /\ MainStartSync)
         => /\ result'.out.tag # "raise"
            /\ Range(schema') = Range(SchemaObjects)
            /\ Len(schema') = Cardinality(Range(schema'))
            /\ schema # <<>> => schema' = schema
            /\ activities' = activities
            /\ athlete' = athlete
            /\ athlete_stats' = athlete_stats
            /\ gear' = gear
            /\ auth_token \subseteq auth_token']_vars

\* init_db has run a second time, over a store that holds rows
C10_Witness ==
    /\ Cardinality(auth_token) = 2
    /\ activities # {}
    /\ athlete # {}
    /\ gear # {}
    /\ pc = "athlete"
    /\ Len(schema) = Len(SchemaObjects)

(***************************************************************************)
(* Properties of the Token Store (SpecToken).                              *)
(***************************************************************************)
\* C11: get_stored_token returns the row with the greatest created_at
\* whenever the auth_token table holds a row, expired or not, and returns
\* None only when the table holds no row.
C11_GetCurrentNewestRow ==
    TableExists
      => \A o \in get_stored_token(schema, auth_token, clock) :
            IF auth_token = {} THEN o = None
            ELSE /\ o.tag = "TokenInfo"
                 /\ \E r \in TopRows(auth_token) :
                       /\ o.access_token = r.access_token
                       /\ o.refresh_token = r.refresh_token
                       /\ o.expires_at = r.expires_at

\* C12: every step keeps each row of auth_token as it is and adds at most one
\* row; a step that stores a token adds exactly one row, made of the token.
C12_TokenStoreAppendOnly ==
    [][/\ auth_token \subseteq auth_token'
       /\ Cardinality(auth_token') <= Cardinality(auth_token) + 1
       /\ (result'.op = "ensure_token" /\ requests' # <<>>
           /\ result'.out.tag = "TokenInfo" /\ EnsureToken)
            => NewRow(auth_token, auth_token', result'.out)
       /\ (result'.op = "main" /\ pc' = "details" /\ MainStartToken)
            => /\ Cardinality(auth_token') = Cardinality(auth_token) + 1
               /\ \E row \in auth_token' \ auth_token :
                     row.access_token = loc'.access_token]_vars

\* two tokens have been stored, the older by strava-sync and the newer by a
\* refresh of ensure_token, and the older row is still there
C12_Witness ==
    /\ result.op = "ensure_token"
    /\ result.out.tag = "TokenInfo"
    /\ Len(requests) = 1
    /\ Cardinality(auth_token) = 2
    /\ \E old, new \in auth_token :
          /\ old.id = 1
          /\ new.id = 2
          /\ new.access_token = result.out.access_token
          /\ IsExpired(old.expires_at, clock)

\* C13 as stated: ensure_token returns a stored token without a refresh only
\* if its expires_at is strictly greater than now + 60 s; with expires_at
\* equal to now + 60 s it refreshes.
C13_UsableOnlyStrictlyAfterMargin ==
    [][(result'.op = "ensure_token" /\ auth_token # {} /\ EnsureToken)
         => /\ (requests' = <<>> /\ result'.out.tag = "TokenInfo")
                 => 2 * result'.out.expires_at > clock + 2 * Margin
            /\ (\A r \in TopRows(auth_token) : 2 * r.expires_at = clock + 2 * Margin)
                 => requests' # <<>>]_vars

\* C13 amended: ensure_token returns a stored token without a refresh only if
\* its expires_at is at least now + 60 s; with expires_at equal to
\* now + 60 s the token is returned and no refresh is made.
C13_UsableOnlyFromMargin ==
    [][(result'.op = "ensure_token" /\ auth_token # {} /\ EnsureToken)
         => /\ (requests' = <<>> /\ result'.out.tag = "TokenInfo")
                 => /\ 2 * result'.out.expires_at >= clock + 2 * Margin
                    /\ \E r \in TopRows(auth_token) :
                          /\ r.access_token = result'.out.access_token
                          /\ r.expires_at = result'.out.expires_at
            /\ (\A r \in TopRows(auth_token) : 2 * r.expires_at = clock + 2 * Margin)
                 => /\ requests' = <<>>
                    /\ result'.out.tag = "TokenInfo"
            /\ (\A r \in TopRows(auth_token) : 2 * r.expires_at < clock + 2 * Margin)
                 => \/ requests' # <<>>
                    \/ result'.out.tag = "raise"]_vars

\* ensure_token has returned, without a request, a stored token whose
\* expires_at equals now + 60 s
C13_Witness ==
    /\ result.op = "ensure_token"
    /\ result.out.tag = "TokenInfo"
    /\ requests = <<>>
    /\ auth_token # {}
    /\ 2 * result.out.expires_at = clock + 2 * Margin

(***************************************************************************)
(* Properties of the failures of data-API requests (Spec).                 *)
(***************************************************************************)
IsStatsRequest(req) == req.url = "athletes/{id}/stats"

Last(q) == q[Len(q)]

\* a step of a running main: it sends one data-API request
FetchStep == MainAthlete \/ MainStats \/ MainPage \/ MainDetails

Failed(res) ==
    /\ res.op = "main"
    /\ res.out.tag = "return"
    /\ res.out.value = 1
    /\ res.error.tag = "raise"

IsLastWrittenWithId(batch, i) ==
    /\ Bindable(batch[i])
    /\ \A j \in (i + 1)..Len(batch) : batch[j].id = batch[i].id => ~Bindable(batch[j])

RowsOf(table, id) == {r \in table : r.id = id}

\* the page loop has ended on an empty page: the batch is written
BatchStep == pc = "activities" /\ pc' = "idle" /\ Last(requests').ok /\ MainPage

C16_CountIsRecordsWritten ==
    [][BatchStep => result'.activity_count = {Len(Written(loc.all_activities))}]_vars

(***************************************************************************)
(* Properties of the details of one activity (Spec).                       *)
(***************************************************************************)
\* C17 as stated: after the details of an activity that has a row are
\* fetched, the row is the one derived from the detail record, in every
\* column.
C17_DetailSupersedesSummary ==
    [][(/\ pc = "details"
        /\ RowsOf(activities, Value(loc.activity_id)) # {}
        /\ Success(result')
        /\ MainDetails)
         => \E v \in 1..MaxVer :
               RowsOf(activities', Value(loc.activity_id))
                 = {ActivityRow(Detail(Value(loc.activity_id), v))}]_vars

(***************************************************************************)
(* Properties of the tables over many runs (Spec).                         *)
(***************************************************************************)
\* C18 as stated: the table of the stats has at most one row for an athlete.
C18_OneStatsRowPerAthlete ==
    \A r, s \in athlete_stats : r.athlete_id = s.athlete_id => r = s

(***************************************************************************)
(* Properties of the tables over all operations (SpecCore).                *)
(***************************************************************************)
Keys(table) == {r.id : r \in table}

\* C19: no step of a sync, of a run with --activity-id, of ensure_token or of
\* init_db, ended well or not, takes a primary key out of the tables of the
\* activities, the athletes, the gear or the tokens.
C19_NoKeyIsDeleted ==
    [][/\ Keys(activities) \subseteq Keys(activities')
       /\ Keys(athlete) \subseteq Keys(athlete')
       /\ Keys(gear) \subseteq Keys(gear')
       /\ Keys(auth_token) \subseteq Keys(auth_token')]_vars

\* ensure_token has run after two syncs, the first on the profile with the
\* gear b1 and g1 and the second on the profile with b1 alone: g1 is in its
\* table, as are the activities and the tokens the runs wrote
C19_Witness ==
    /\ pc = "idle"
    /\ result.op = "ensure_token"
    /\ athlete = {AthleteRow(Athlete(1))}
    /\ Keys(gear) = {"b1", "g1"}
    /\ Keys(activities) = {1, 2}
    /\ Keys(auth_token) = {1, 2}

(***************************************************************************)
(* Properties of the requests a run sends (Spec).                          *)
(***************************************************************************)
IsTokenRequest(req) == req.url = "STRAVA_TOKEN_URL"

DataEndpoints == {"athlete", "athletes/{id}/stats", "athlete/activities", "activities/{id}"}

\* C20: every request a sync or a run with --activity-id sends to an endpoint
\* of the data API is a GET; the requests that are not GETs are the POSTs to
\* the token endpoint.
C20_DataRequestsAreGets ==
    \A i \in 1..Len(requests) :
       /\ requests[i].url \in DataEndpoints => requests[i].method = "GET"
       /\ requests[i].method # "GET"
            => requests[i].method = "POST" /\ IsTokenRequest(requests[i])
       /\ IsTokenRequest(requests[i]) \/ requests[i].url \in DataEndpoints

\* a sync has ended with result 0: it has sent the POST for the token and
\* GETs for the profile, the stats and two pages of activities
C20_Witness ==
    /\ pc = "idle"
    /\ Success(result)
    /\ Len(requests) = 5
    /\ IsTokenRequest(requests[1])
    /\ requests[1].method = "POST"
    /\ {requests[i].url : i \in 2..5} = DataEndpoints \ {"activities/{id}"}
    /\ \A i \in 2..5 : requests[i].method = "GET" /\ requests[i].ok

(***************************************************************************)
(* Properties of the token requests of the local programs (SpecToken).     *)
(***************************************************************************)
BrokerUrls == {"TOKEN_SERVICE_URL/refresh-token", "TOKEN_SERVICE_URL/exchange-token"}

\* C21 as stated: every request for a token that strava-sync or ensure_token
\* sends goes to the broker and carries the refresh token or the code and
\* nothing else; no request of theirs carries client_secret.
C21_SecretNeverLeavesLocal ==
    \A i \in 1..Len(requests) :
       requests[i].method = "POST"
         => /\ requests[i].url \in BrokerUrls
            /\ DOMAIN requests[i].body \in {{"refresh_token"}, {"code"}}

(***************************************************************************)
(* Properties of the token service (SpecBroker).                           *)
(***************************************************************************)
BrokerField(op) == IF op = "refresh_access_token" THEN "refresh_token" ELSE "code"

UpstreamOk(upstream) ==
    /\ upstream # None
    /\ upstream.kind = "http"
    /\ upstream.status = 200

\* C22: POST /refresh-token and POST /exchange-token answer 200 only when
\* Strava answered 200, and a 200 answer has access_token, refresh_token and
\* expires_at, with the values of Strava's answer to this very request; a
\* body without refresh_token (without code) and an answer of Strava that is
\* not a 200 give an answer that is not a 200; the request sent to Strava
\* carries the member of the body received, and nothing of an earlier one.
C22_BrokerAnswers ==
    [][(result'.op \in {"refresh_access_token", "exchange_token"} /\ NextBroker)
         => LET r == result' IN
            /\ r.out.status = 200
                 => /\ UpstreamOk(r.upstream)
                    /\ TokenFields \subseteq DOMAIN r.out.body
                    /\ \A k \in TokenFields : r.out.body[k] = r.upstream.body[k]
            /\ (r.data = NotJson \/ BrokerField(r.op) \notin DOMAIN r.data) => r.out.status # 200
            /\ ~UpstreamOk(r.upstream) => r.out.status # 200
            /\ r.upstream # None
                 => /\ Len(requests') = Len(requests) + 2
                    /\ Last(requests').body[BrokerField(r.op)] = r.data[BrokerField(r.op)]
            /\ r.upstream = None => Len(requests') = Len(requests) + 1]_vars

\* the service has answered a refresh with the 200 of Strava's token pair
\* after it answered an earlier request with an error
C22_Witness ==
    /\ result.op = "refresh_access_token"
    /\ result.out = Http(200, TokenBody(1, Margin))
    /\ result.upstream = Http(200, TokenBody(1, Margin))
    /\ Len(SelectSeq(requests, IsBrokerRequest)) = 2
    /\ Len(requests) = 3
    /\ Last(requests).body.client_secret = "CLIENT_SECRET"

(***************************************************************************)
(* Properties of the requests of one operation (SpecCore).                 *)
(***************************************************************************)
IsPost(req) == req.method = "POST"

IsDataRequest(req) == req.url \in DataEndpoints

\* C23: in the requests of one call of ensure_token or one run of
\* strava-sync there is at most one request for a token, no page number is
\* requested twice, and a data request that failed is not followed by a
\* request for the same resource; a page that failed is followed by no page.
C23_NoRetry ==
    /\ Len(SelectSeq(requests, IsPost)) <= 1
    /\ \A i, j \in 1..Len(requests) :
          (i < j /\ IsDataRequest(requests[i]) /\ IsDataRequest(requests[j]))
            => /\ (IsPageRequest(requests[i]) /\ IsPageRequest(requests[j]))
                    => requests[i].body.page # requests[j].body.page
               /\ ~requests[i].ok
                    => /\ requests[j].url # requests[i].url
                       /\ ~IsPageRequest(requests[i])

\* a sync has ended with result 0 after a failed request for the stats: it
\* sent one request for the token, one for the profile, one for the stats
\* and one each for the pages 1 and 2
C23_Witness ==
    /\ pc = "idle"
    /\ Success(result)
    /\ Len(requests) = 5
    /\ IsPost(requests[1])
    /\ IsStatsRequest(requests[3])
    /\ ~requests[3].ok
    /\ requests[4].body.page = 1
    /\ requests[5].body.page = 2

(***************************************************************************)
(* Properties of repeated syncs of the same remote data (SpecRerun).       *)
(***************************************************************************)
\* the tables one successful sync of RerunRemote leaves in an empty store
SyncedActivities == {ActivityRow(Sparse(1, 2)), ActivityRow(Activity(2, 1))}

SyncedAthlete == {AthleteRow(Athlete(2))}

SyncedGear == {GearRow(Bike("b1", 2), "bike"), GearRow(Shoe("g1", 2), "shoe")}

\* a sync has ended with result 0 and has fetched the whole feed
SyncedAll == pc = "idle" /\ Success(result) /\ result.activity_count = {Len(RerunFeed)}

\* C24: whenever a sync that fetched the whole feed has ended with result 0,
\* whatever syncs of the same remote data ran before it and however they
\* ended, the tables of the activities, the athletes and the gear are the
\* ones a single successful sync produces; a sync that fails leaves the
\* tables of the athletes and the gear as they were or as the successful
\* sync leaves them, and in the table of the activities only rows of the
\* records of the feed.
C24_RerunIsSafe ==
    /\ SyncedAll
         => /\ activities = SyncedActivities
            /\ athlete = SyncedAthlete
            /\ gear = SyncedGear
    /\ athlete \in {{}, SyncedAthlete}
    /\ gear \in {{}, SyncedGear}
    /\ \A r \in activities : \E i \in 1..Len(RerunFeed) : r = ActivityRow(RerunFeed[i])
    /\ \A r, t \in activities : r.id = t.id => r = t

\* a sync has ended with result 0 after an earlier sync that had stored its
\* token: the second token row is the one of this run
C24_Witness ==
    /\ SyncedAll
    /\ Cardinality(auth_token) = 2
    /\ activities = SyncedActivities
    /\ athlete = SyncedAthlete
    /\ gear = SyncedGear

(***************************************************************************)
(* Properties of the end of the page loop (SpecFetchLive).                 *)
(***************************************************************************)
\* C25: with a page limit the model can count to, the page loop ends, also
\* against a provider that never serves an empty page; with or without a
\* limit, the turn of the loop that gets an empty page or a failure is its
\* last: main ends and requests no page after it.
C25_FetchTerminates ==
    /\ (pc = "activities" /\ loc.page_limit # {} /\ Value(loc.page_limit) <= MaxPage)
         ~> pc = "idle"
    /\ [][(/\ pc = "activities"
           /\ ~Last(requests').ok \/ Last(requests').n = 0
           /\ MainPage)
            => /\ pc' = "idle"
               /\ Len(PageEntries(requests')) = Len(PageEntries(requests)) + 1]_vars

\* a sync with a limit of one page has ended with result 0 after one page
\* that was not empty
C25_Witness ==
    /\ pc = "idle"
    /\ Success(result)
    /\ loc.page_limit = {1}
    /\ Len(PageEntries(requests)) = 1
    /\ PageEntries(requests)[1].n > 0

\* C26 as stated: after the details of an activity that has no row are
\* fetched with success, the table has the row derived from the detail
\* record.
C26_DetailInsertsMissingRow ==
    [][(/\ pc = "details"
        /\ RowsOf(activities, Value(loc.activity_id)) = {}
        /\ Success(result')
        /\ MainDetails)
         => \E v \in 1..MaxVer :
               ActivityRow(Detail(Value(loc.activity_id), v)) \in activities']_vars

(***************************************************************************)
(* Properties of the order of the token and the data requests (Spec).      *)
(***************************************************************************)
\* C27: main has its token stored before it sends a data request: the step
\* that obtains the token sends the token request alone and adds the row of
\* the token to auth_token; when the token request fails main ends with
\* result 1, no data request and no row changed; every data request of the
\* run comes after the token request and leaves auth_token as it is, also
\* when the data request fails and ends the run.
C27_TokenStoredBeforeData ==
    [][/\ (pc = "idle" /\ MainStartSync)
            => /\ \A i \in 1..Len(requests') : ~IsDataRequest(requests'[i])
               /\ <<activities', athlete', athlete_stats', gear'>>
                    = <<activities, athlete, athlete_stats, gear>>
               /\ pc' = "idle" => (Failed(result') /\ auth_token' = auth_token)
               /\ pc' # "idle"
                    => /\ Len(requests') = 1
                       /\ IsTokenRequest(requests'[1])
                       /\ Cardinality(auth_token') = Cardinality(auth_token) + 1
                       /\ \E row \in auth_token' \ auth_token :
                             row.access_token = loc'.access_token
       /\ (pc # "idle" /\ FetchStep)
            => /\ IsTokenRequest(requests'[1])
               /\ \A i \in 2..Len(requests') : IsDataRequest(requests'[i])
               /\ Len(requests') = Len(requests) + 1
               /\ auth_token' = auth_token
               /\ \E row \in auth_token' : row.access_token = loc.access_token]_vars

\* a second run has ended with result 1 on a failed request for the profile:
\* the token of the run is stored as the second row of auth_token
C27_Witness ==
    /\ pc = "idle"
    /\ Failed(result)
    /\ Len(requests) = 2
    /\ IsTokenRequest(requests[1])
    /\ requests[2].url = "athlete"
    /\ ~requests[2].ok
    /\ Cardinality(auth_token) = 2

(***************************************************************************)
(* Properties of the current credential (SpecToken).                       *)
(***************************************************************************)
\* C28 as stated: when ensure_token has refreshed and stored a token that is
\* not expired, a get_stored_token that follows at once returns that token,
\* also when another row has the created_at second of the new one.
C28_CurrentIsLastPut ==
    [][(/\ result'.op = "ensure_token"
        /\ requests' # <<>>
        /\ result'.out.tag = "TokenInfo"
        /\ ~IsExpired(result'.out.expires_at, clock')
        /\ EnsureToken)
         => \A o \in get_stored_token(schema', auth_token', clock') :
               /\ o.tag = "TokenInfo"
               /\ o.access_token = result'.out.access_token
               /\ o.expires_at = result'.out.expires_at]_vars

(***************************************************************************)
(* Properties of the one commit of the page loop (Spec).                   *)
(***************************************************************************)
\* C29: no turn of the page loop writes an activity but the one that ends
\* the loop with success: a turn after which the loop goes on, and a turn
\* whose request fails, leave the table of the activities as it is, so after
\* a failed fetch the table is the one before the fetch, without the records
\* of the pages fetched before the failure.
C29_FailedFetchWritesNothing ==
    [][(pc = "activities" /\ MainPage)
         => /\ ~Last(requests').ok
                 => /\ activities' = activities
                    /\ pc' = "idle"
                    /\ Failed(result')
            /\ pc' = "activities" => activities' = activities
            /\ activities' # activities => (Last(requests').ok /\ Success(result'))]_vars

\* the first run has ended with result 1 on a failed request for page 2,
\* after a page 1 with records: the table of the activities is empty
C29_Witness ==
    /\ pc = "idle"
    /\ Failed(result)
    /\ Cardinality(auth_token) = 1
    /\ Len(PageEntries(requests)) = 2
    /\ PageEntries(requests)[1].n > 0
    /\ ~Last(requests).ok
    /\ activities = {}

====
